---- MODULE Spec2Model ----
(***************************************************************************)
(* StorageCompressAI: the API gateway's POST /compress route               *)
(* (image-compressor-fastify-api/src/routes/compression.js, the handler    *)
(* registered at lines 155-213), the CompressionService it calls           *)
(* (services/compression.js), the storage upload (SupabaseService) and the *)
(* compression engine behind the service URL; the API key hook             *)
(* (middleware.js), the GET /health and GET /metrics routes, and the       *)
(* startup of server.js with the configuration of config.js, and the       *)
(* functions validateFileUpload and parseQuality of utils.                 *)
(*                                                                         *)
(* Node.js runs one callback at a time: every action below is the code     *)
(* that runs between two awaits of one request.  The engine and the        *)
(* storage are other processes; their steps interleave freely.             *)
(*                                                                         *)
(* The engine's source (image-compressor-rust-service/src) is not part of  *)
(* the sources at hand; its steps are modelled from the specification and  *)
(* are marked so.                                                          *)
(***************************************************************************)
EXTENDS Integers, Sequences, FiniteSets, TLC

VARIABLES
    processUp,    \* the gateway process has not called process.exit
    pc,           \* pc[r]: where request r's handler is suspended
    req,          \* req[r]: what the client sent
    engineReq,    \* engineReq[r]: the fetch() compressImage issued for r
    engineCalls,  \* engineCalls[r]: number of fetch() calls to the engine for r
    engine,       \* engine[r]: the engine's side of r's call
    timer,        \* timer[r]: compressImage's setTimeout handle
    upload,       \* upload[r]: the storage upload of r
    uploadCalls,  \* uploadCalls[r]: number of uploadFile calls for r
    response,     \* response[r]: what reply.send / the error handler sent
    replies,      \* replies[r]: number of responses sent for r
    logged,       \* logged[r]: error.message passed to request.log.error
    requestsTotal,   \* engine counter: requests handled
    bytesTotal,      \* engine counter: bytes processed
    env,          \* process.env when the process starts
    boot,         \* where server.js is in its startup, and how it ended
    headers,      \* headers[r]: the headers of request r that the hooks read
    probe,        \* a GET /health or GET /metrics request and its answer
    util          \* the last call of a function of utils.js and its result

vars == << processUp, pc, req, engineReq, engineCalls, engine, timer, upload,
           uploadCalls, response, replies, logged, requestsTotal, bytesTotal,
           env, boot, headers, probe, util >>

----------------------------------------------------------------------------
(* Bounds of the model *)

\* number of /compress requests that may be in flight together
NumReqs == 2

\* config.upload.maxSize (MAX_FILE_SIZE in the environment), in bytes, scaled
MaxFileSize == 2

Reqs == 1..NumReqs

----------------------------------------------------------------------------
(* Configuration: config.js and the plugin registration of server.js *)

\* config.upload.maxSize
maxSize == MaxFileSize

\* config.upload.allowedMimeTypes
allowedMimeTypes == {"image/jpeg", "image/png", "image/webp"}

\* variant: the parser's limit set one byte above config.upload.maxSize
fileSizeLimitOffByOne == maxSize + 1

\* @fastify/multipart is registered with limits.fileSize = config.upload.maxSize
fileSizeLimit == maxSize

\* variant: the plugin registered with attachFieldsToBody: 'keyValues'
attachFieldsToBodyKeyValues == TRUE

\* @fastify/multipart is registered without attachFieldsToBody: the form's
\* fields are not copied to request.body, which stays undefined
attachFieldsToBody == FALSE

\* the engine's documented default quality
DefaultQuality == 80

----------------------------------------------------------------------------
(* JavaScript values that flow through the handler *)

\* text is a sequence of fragments; template literals concatenate fragments
NoText == << >>

Undefined == [t |-> "undefined", s |-> << >>]
Str(chars) == [t |-> "string", s |-> chars]

\* JavaScript truthiness: undefined is falsy, a string is truthy unless empty
Truthy(v) == v.t = "string" /\ Len(v.s) > 0

\* a byte buffer: whose payload it is, its length, and its encoding
NoBuf == [src |-> 0, len |-> 0, fmt |-> "none"]
Buf(src, len, fmt) == [src |-> src, len |-> len, fmt |-> fmt]

NoResponse ==
    [status |-> 0, ctype |-> "none", message |-> "", details |-> NoText,
     code |-> "", body |-> NoBuf]

\* createErrorResponse(message, details, code): details and code are left
\* out when falsy
createErrorResponse(message, details, code) ==
    [message |-> message, details |-> details, code |-> code]

\* reply.code(status).send(createErrorResponse(...))
ErrorReply(status, e) ==
    [status |-> status, ctype |-> "application/json", message |-> e.message,
     details |-> e.details, code |-> e.code, body |-> NoBuf]

----------------------------------------------------------------------------
(* What a client may send *)

\* the quality form field: absent, or text; "80" is the documented default
QualityFields ==
    { Undefined, Str(<<"0">>), Str(<<"8","0">>), Str(<<"8","5">>),
      Str(<<"1","0","1">>), Str(<<"a","b","c">>) }

\* the bytes of the uploaded file part; src names the request they came with
Payload(r, n) == Buf(r, n, "raw")

NoRequest ==
    [hasFile |-> FALSE, mimetype |-> "", payload |-> NoBuf,
     quality |-> Undefined, format |-> Undefined]

\* the format form field: absent, or one of the documented output formats
FormatFields == { Undefined, Str(<<"w","e","b","p">>) }

\* sizes of an uploaded image: a small one, the largest that is accepted and
\* the smallest that is not
ImageSizes == {1, maxSize, maxSize + 1}

\* a multipart request: with no file part, with a file of a type that is not
\* allowed, or with an image and its form fields
RequestInputs(r, qualities, formats) ==
    { NoRequest }
    \cup { [hasFile |-> TRUE, mimetype |-> "text/plain", payload |-> Payload(r, 1),
            quality |-> Undefined, format |-> Undefined] }
    \cup { [hasFile |-> TRUE, mimetype |-> "image/png", payload |-> Payload(r, n),
            quality |-> q, format |-> f] :
            n \in ImageSizes, q \in qualities, f \in formats }

----------------------------------------------------------------------------
(* utils: validateFileUpload *)

Min(a, b) == IF a < b THEN a ELSE b

\* variant: a file of exactly maxSize bytes rejected
validateFileUploadSizeStrict(hasFile, mimetype, bytesRead, max, allowed) ==
    IF ~hasFile
    THEN [isValid |-> FALSE, error |-> <<"No file provided">>]
    ELSE IF mimetype \notin allowed
    THEN [isValid |-> FALSE, error |-> <<"Invalid file type. Allowed types: ", "image/jpeg, image/png, image/webp">>]
    ELSE IF bytesRead >= max
    THEN [isValid |-> FALSE, error |-> <<"File too large. Maximum size allowed: ", "formatBytes(maxSize)">>]
    ELSE [isValid |-> TRUE, error |-> NoText]

\* variant: the mimetype of the file not checked
validateFileUploadTypeUnchecked(hasFile, mimetype, bytesRead, max, allowed) ==
    IF ~hasFile
    THEN [isValid |-> FALSE, error |-> <<"No file provided">>]
    ELSE IF bytesRead > max
    THEN [isValid |-> FALSE, error |-> <<"File too large. Maximum size allowed: ", "formatBytes(maxSize)">>]
    ELSE [isValid |-> TRUE, error |-> NoText]

\* validateFileUpload(file, {maxSize, allowedMimeTypes}); file is what
\* request.file() resolved to, bytesRead the bytes its stream has delivered
validateFileUpload(hasFile, mimetype, bytesRead, max, allowed) ==
    IF ~hasFile
    THEN [isValid |-> FALSE, error |-> <<"No file provided">>]
    ELSE IF mimetype \notin allowed
    THEN [isValid |-> FALSE, error |-> <<"Invalid file type. Allowed types: ", "image/jpeg, image/png, image/webp">>]
    ELSE IF bytesRead > max
    THEN [isValid |-> FALSE, error |-> <<"File too large. Maximum size allowed: ", "formatBytes(maxSize)">>]
    ELSE [isValid |-> TRUE, error |-> NoText]

\* file.file.bytesRead when the handler validates: the multipart parser has
\* delivered some prefix of the part, and never more than limits.fileSize
BytesReadAtValidation(r) == 0..Min(req[r].payload.len, fileSizeLimit)

----------------------------------------------------------------------------
(* services/compression.js: what compressImage sends *)

\* request.body of a multipart request
RequestBody(r) ==
    IF attachFieldsToBody
    THEN [present |-> TRUE, quality |-> req[r].quality, format |-> req[r].format]
    ELSE [present |-> FALSE, quality |-> Undefined, format |-> Undefined]

\* { quality: request.body?.quality, format: request.body?.format }
CompressOptions(r) ==
    [quality |-> IF RequestBody(r).present THEN RequestBody(r).quality ELSE Undefined,
     format  |-> IF RequestBody(r).present THEN RequestBody(r).format ELSE Undefined]

\* variant: a fallback quality of the gateway's own when none is given
QualityHeaderFallback(options) ==
    IF Truthy(options.quality) THEN options.quality ELSE Str(<<"1","0","0">>)

\* ...(options.quality && { 'X-Compression-Quality': options.quality.toString() })
QualityHeader(options) ==
    IF Truthy(options.quality) THEN options.quality ELSE Undefined

\* ...(options.format && { 'X-Output-Format': options.format })
FormatHeader(options) ==
    IF Truthy(options.format) THEN options.format ELSE Undefined

NoEngineReq ==
    [sent |-> FALSE, body |-> NoBuf, quality |-> Undefined, format |-> Undefined]

\* variant: the buffer kept in a variable shared by all requests
EngineRequestBodyShared(r) == req[1].payload

\* the body compressImage posts for request r: the buffer of r's own file
EngineRequestBody(r) == req[r].payload

\* fetch(`${serviceUrl}/compress`, { method: 'POST', body: imageData, headers })
EngineRequest(r) ==
    [sent |-> TRUE, body |-> EngineRequestBody(r),
     quality |-> QualityHeader(CompressOptions(r)),
     format |-> FormatHeader(CompressOptions(r))]

----------------------------------------------------------------------------
(* routes/compression.js: the catch block of POST /compress *)

\* error.message.includes('Compression failed')
IncludesCompressionFailed(message) ==
    \E i \in 1..Len(message) : message[i] = "Compression failed: "

\* variant: the engine's failures answered as client errors
CatchReplyClientError(message) ==
    IF IncludesCompressionFailed(message)
    THEN ErrorReply(400, createErrorResponse("Compression failed", message, "COMPRESSION_ERROR"))
    ELSE ErrorReply(500, createErrorResponse("Upload failed", message, "UPLOAD_ERROR"))

\* the response the catch block sends for a thrown error
CatchReply(message) ==
    IF IncludesCompressionFailed(message)
    THEN ErrorReply(500, createErrorResponse("Compression failed", message, "COMPRESSION_ERROR"))
    ELSE ErrorReply(500, createErrorResponse("Upload failed", message, "UPLOAD_ERROR"))

\* the framework's reply for an error the handler let escape: its statusCode,
\* code and message
EscapedReply(status, message, code) ==
    [status |-> status, ctype |-> "application/json", message |-> message,
     details |-> NoText, code |-> code, body |-> NoBuf]

\* variant: uploadFile called without await, its rejection left floating
ErrorRouteFloatingUpload(where) ==
    IF where = "compressImage" THEN "catch"
    ELSE IF where = "uploadFile" THEN "unhandled" ELSE "framework"

\* who receives an error raised at an await of the handler: the try/catch of
\* lines 177-212 around compressImage and uploadFile, or the framework, which
\* awaits the handler's promise
ErrorRoute(where) ==
    IF where \in {"compressImage", "uploadFile"} THEN "catch" ELSE "framework"

----------------------------------------------------------------------------
(* The engine (modelled from the specification) *)

NoEngine ==
    [state |-> "none", status |-> 0, text |-> "", out |-> NoBuf, quality |-> 0]

\* texts of the engine's failures: decode failures and encoder failures
DecodeErrorTexts == {"unsupported image format"}
EncodeErrorTexts == {"encoder failed", "allocation failed in encoder"}

IsDigit(c) == c \in {"0","1","2","3","4","5","6","7","8","9"}

DigitValue(c) ==
    CASE c = "0" -> 0 [] c = "1" -> 1 [] c = "2" -> 2 [] c = "3" -> 3
      [] c = "4" -> 4 [] c = "5" -> 5 [] c = "6" -> 6 [] c = "7" -> 7
      [] c = "8" -> 8 [] c = "9" -> 9

RECURSIVE DecimalValue(_)
DecimalValue(chars) ==
    IF chars = << >> THEN 0
    ELSE 10 * DecimalValue(SubSeq(chars, 1, Len(chars) - 1))
         + DigitValue(chars[Len(chars)])

\* the quality the engine uses for a request: the header's value when it is a
\* number in [1,100], the default when it is missing, non-numeric or out of range
EngineQuality(header) ==
    IF header.t = "string" /\ Len(header.s) > 0
       /\ (\A i \in 1..Len(header.s) : IsDigit(header.s[i]))
       /\ DecimalValue(header.s) >= 1 /\ DecimalValue(header.s) <= 100
    THEN DecimalValue(header.s)
    ELSE DefaultQuality

\* variant: an output that can be empty for a small input
EngineOutputRoundedDown(body, q) ==
    Buf(body.src, (body.len * q) \div 100, "jpeg")

\* the JPEG the engine produces from a decodable input at a quality: never
\* empty, and derived from that input alone
EngineOutput(body, q) ==
    Buf(body.src, 1 + (body.len * q) \div 100, "jpeg")

\* variant: only successful requests counted
CountedRequestsSuccessOnly(total, status) ==
    IF status = 200 THEN total + 1 ELSE total

\* the request counter counts every handled request
CountedRequests(total, status) == total + 1

\* the bytes-processed counter grows by the output of a successful request
CountedBytes(total, status, out) ==
    IF status = 200 THEN total + out.len ELSE total

----------------------------------------------------------------------------
(* config.js: the configuration built from process.env *)

Null == [t |-> "null", s |-> << >>]

\* a || b
OrElse(a, b) == IF Truthy(a) THEN a ELSE b

\* the environment of a deployment that sets only what is required
DefaultEnv ==
    [SUPABASE_URL |-> Str(<<"https://project.supabase.co">>),
     SUPABASE_KEY |-> Str(<<"anon-key">>),
     API_KEY |-> Undefined,
     RATE_LIMIT_MAX |-> Undefined]

\* a variable of the environment: unset, set to the empty string, or set
EnvSettings(value) == { Undefined, Str(<< >>), Str(<<value>>) }

\* the environments a process may be started in
Envs ==
    { [SUPABASE_URL |-> u, SUPABASE_KEY |-> k, API_KEY |-> a, RATE_LIMIT_MAX |-> m] :
        u \in EnvSettings("https://project.supabase.co"),
        k \in EnvSettings("anon-key"),
        a \in EnvSettings("secret"),
        m \in { Undefined, Str(<<"5">>) } }

\* parseInt(text, 10) of a text of digits
ParseInt(v) == DecimalValue(v.s)

\* the config object of config.js 3-49: its top-level keys are env, server,
\* rust, supabase, upload, security and logging; the rate limit settings are
\* under security
Config(e) ==
    [env      |-> "development",
     server   |-> [host |-> "0.0.0.0", port |-> 3000],
     rust     |-> [serviceUrl |-> "http://rust-compressor-service:8000"],
     supabase |-> [url |-> e.SUPABASE_URL, key |-> e.SUPABASE_KEY],
     upload   |-> [maxSize |-> maxSize, allowedMimeTypes |-> allowedMimeTypes,
                   defaultQuality |-> DefaultQuality],
     security |-> [rateLimit |-> [max |-> ParseInt(OrElse(e.RATE_LIMIT_MAX,
                                                  Str(<<"1","0","0">>)))],
                   apiKey |-> OrElse(e.API_KEY, Null)],
     logging  |-> [level |-> "info"]]

\* variant: SUPABASE_KEY listed before SUPABASE_URL
requiredConfigKeyFirst(cfg) ==
    << <<"SUPABASE_KEY", cfg.supabase.key>>, <<"SUPABASE_URL", cfg.supabase.url>> >>

\* requiredConfig, in the order of Object.entries
requiredConfig(cfg) ==
    << <<"SUPABASE_URL", cfg.supabase.url>>, <<"SUPABASE_KEY", cfg.supabase.key>> >>

\* Object.entries(requiredConfig).forEach: the key of the first entry whose
\* value is falsy, for which the callback throws; "" when none is
RECURSIVE FirstMissing(_)
FirstMissing(entries) ==
    IF entries = << >> THEN ""
    ELSE IF ~Truthy(Head(entries)[2]) THEN Head(entries)[1]
    ELSE FirstMissing(Tail(entries))

----------------------------------------------------------------------------
(* server.js: startup *)

\* what ./middleware exports
MiddlewareExports == {"apiKeyAuth", "notFoundHandler"}

\* the steps of start(), in order: the four plugins of registerPlugins,
\* initializeServices, the hooks and the routes of registerRoutes, listen
StartOrder ==
    <<"cors", "multipart", "rateLimit", "helmet", "services", "hooks", "routes",
      "listen">>

\* the message of the error a step of start() throws, NoText when it completes.
\* The rate-limit plugin's options read config.rateLimit.max; the hooks step
\* calls requestLogger(config), as imported from ./middleware
StepError(step, cfg, exports) ==
    IF step = "rateLimit" /\ "rateLimit" \notin DOMAIN cfg
    THEN <<"Cannot read properties of undefined (reading 'max')">>
    ELSE IF step = "hooks" /\ "requestLogger" \notin exports
    THEN <<"requestLogger is not a function">>
    ELSE NoText

\* the position after a step of StartOrder
RECURSIVE IndexOf(_, _)
IndexOf(seq, x) == IF Head(seq) = x THEN 1 ELSE 1 + IndexOf(Tail(seq), x)

AfterStep(step) ==
    IF IndexOf(StartOrder, step) = Len(StartOrder) THEN "listening"
    ELSE StartOrder[IndexOf(StartOrder, step) + 1]

\* the process before server.js requires ./config
Starting == [pc |-> "require", done |-> << >>, error |-> NoText, exitCode |-> 0]

\* the process once fastify.listen has resolved
Listening == [pc |-> "listening", done |-> StartOrder, error |-> NoText, exitCode |-> 0]

\* the process has ended with this error and exit code
Exited(b, how, message, exitCode) ==
    [pc |-> how, done |-> b.done, error |-> message, exitCode |-> exitCode]

----------------------------------------------------------------------------
(* utils: parseQuality, and calls of the functions of utils *)

NaN == [nan |-> TRUE, n |-> 0]
Num(n) == [nan |-> FALSE, n |-> n]

IsHexDigit(c) ==
    IsDigit(c) \/ c \in {"a","b","c","d","e","f","A","B","C","D","E","F"}

HexValue(c) ==
    IF IsDigit(c) THEN DigitValue(c)
    ELSE CASE c \in {"a","A"} -> 10 [] c \in {"b","B"} -> 11 [] c \in {"c","C"} -> 12
           [] c \in {"d","D"} -> 13 [] c \in {"e","E"} -> 14 [] c \in {"f","F"} -> 15

\* leading white space is skipped
RECURSIVE TrimStart(_)
TrimStart(chars) ==
    IF chars # << >> /\ Head(chars) = " " THEN TrimStart(Tail(chars)) ELSE chars

\* the longest prefix of digits of the radix
RECURSIVE DigitPrefix(_, _)
DigitPrefix(chars, radix) ==
    IF chars = << >> THEN << >>
    ELSE IF (IF radix = 16 THEN IsHexDigit(Head(chars)) ELSE IsDigit(Head(chars)))
    THEN << Head(chars) >> \o DigitPrefix(Tail(chars), radix)
    ELSE << >>

RECURSIVE RadixValue(_, _)
RadixValue(digits, radix) ==
    IF digits = << >> THEN 0
    ELSE radix * RadixValue(SubSeq(digits, 1, Len(digits) - 1), radix)
         + HexValue(digits[Len(digits)])

\* parseInt(value) without a radix: the value is turned into text (undefined
\* and null turn into words without digits); white space is skipped, a sign
\* is read, a 0x or 0X prefix selects radix 16, and the longest prefix of
\* digits is the result; NaN when there is no digit
JsParseInt(v) ==
    IF v.t # "string" THEN NaN
    ELSE LET t      == TrimStart(v.s)
             signed == t # << >> /\ Head(t) \in {"+", "-"}
             sign   == IF t # << >> /\ Head(t) = "-" THEN -1 ELSE 1
             u      == IF signed THEN Tail(t) ELSE t
             hex    == Len(u) >= 2 /\ u[1] = "0" /\ u[2] \in {"x", "X"}
             digits == IF hex THEN DigitPrefix(SubSeq(u, 3, Len(u)), 16)
                       ELSE DigitPrefix(u, 10)
         IN  IF digits = << >> THEN NaN
             ELSE Num(sign * RadixValue(digits, IF hex THEN 16 ELSE 10))

\* parseQuality(quality, defaultQuality)
parseQuality(quality, defaultQuality) ==
    LET parsed == JsParseInt(quality)
    IN  IF parsed.nan \/ parsed.n < 1 \/ parsed.n > 100
        THEN defaultQuality
        ELSE parsed.n

\* what parseQuality may be called with; a number is given as its text, which
\* is what parseInt makes of it
QualityInputs ==
    { Undefined, Null, Str(<< >>),
      Str(<<"1">>), Str(<<"7">>), Str(<<"5","0">>), Str(<<"8","5">>),
      Str(<<"9","9">>), Str(<<"1","0","0">>), Str(<<"0","0","7">>),
      Str(<<"0">>), Str(<<"1","0","1">>), Str(<<"-","5">>),
      Str(<<"+","7">>), Str(<<" ","4","2">>),
      Str(<<"a","b","c">>), Str(<<"8","5","a","b","c">>),
      Str(<<"0","x","1","0">>), Str(<<"0","X","1","F">>), Str(<<"0","x">>),
      Str(<<"1","2",".","5">>), Str(<<"1","e","2">>) }

\* default qualities inside [1,100]
DefaultQualities == {1, DefaultQuality, 100}

\* mimetypes a file part may declare
Mimetypes == allowedMimeTypes \cup {"text/plain", "image/gif"}

NoCall == [fn |-> "none"]

----------------------------------------------------------------------------
(* middleware.js: the API key hook *)

NoHeaders == [xApiKey |-> Undefined]

\* the x-api-key header of a request: absent, empty, the key of the
\* deployment, or another text
ApiKeyHeaders == { Undefined, Str(<< >>), Str(<<"secret">>), Str(<<"guess">>) }

\* variant: any x-api-key header accepted, whatever its value
apiKeyAuthPresenceOnly(cfg, hdrs) ==
    IF ~Truthy(cfg.security.apiKey) THEN "next"
    ELSE IF ~Truthy(hdrs.xApiKey) THEN "reply401"
    ELSE "next"

\* apiKeyAuth(config)(request, reply): lets the request go on, or answers 401
apiKeyAuth(cfg, hdrs) ==
    IF ~Truthy(cfg.security.apiKey) THEN "next"
    ELSE IF ~Truthy(hdrs.xApiKey) \/ hdrs.xApiKey # cfg.security.apiKey THEN "reply401"
    ELSE "next"

\* server.js 59-61: the hook is added only when config.security.apiKey is set
HookAdded(cfg) == Truthy(cfg.security.apiKey)

----------------------------------------------------------------------------
(* GET /health and GET /metrics: the routes and CompressionService.getHealth, *)
(* getMetrics                                                               *)

ProbeRoutes == {"/health", "/metrics"}

NoBody == [kind |-> "none", status |-> Undefined, lines |-> << >>]

\* a JSON object with a status member (Undefined: without one)
JsonBody(status) == [kind |-> "json", status |-> status, lines |-> << >>]

\* a text body, one line per element
TextBody(lines) == [kind |-> "text", status |-> Undefined, lines |-> lines]

NoProbeAnswer == [state |-> "none", status |-> 0, body |-> NoBody]

NoProbeResponse ==
    [status |-> 0, message |-> "", details |-> NoText, code |-> "", body |-> NoBody]

NoProbe ==
    [route |-> "none", pc |-> "idle", engine |-> NoProbeAnswer,
     response |-> NoProbeResponse]

\* the engine's answers to GET /health (modelled from the specification and
\* the engine's README): a small structured payload with a fixed status; a
\* failing engine answers with an error status
HealthAnswers ==
    { [state |-> "answered", status |-> 200, body |-> b] :
        b \in { JsonBody(Str(<<"ok">>)), JsonBody(Str(<<"serving">>)),
                JsonBody(Undefined), TextBody(<<"OK">>) } }
    \cup { [state |-> "answered", status |-> 503, body |-> TextBody(<<"unavailable">>)] }

\* the engine's text exposition of its counters, one metric per line
MetricsExposition(requests, bytes) ==
    TextBody(<< [name |-> "requests_total", value |-> requests],
                [name |-> "bytes_processed_total", value |-> bytes] >>)

\* the engine's answers to GET /metrics (modelled from the specification)
MetricsAnswers(requests, bytes) ==
    { [state |-> "answered", status |-> 200, body |-> MetricsExposition(requests, bytes)],
      [state |-> "answered", status |-> 500, body |-> TextBody(<<"exporter failed">>)] }

\* response.json(): the parsed value, or the SyntaxError of JSON.parse
ResponseJson(body) ==
    IF body.kind = "json"
    THEN [ok |-> TRUE, value |-> body, error |-> NoText]
    ELSE [ok |-> FALSE, value |-> NoBody, error |-> <<"Unexpected token in JSON">>]

\* getHealth / getMetrics when the engine's status is not ok
NotOkMessage(route) ==
    IF route = "/health" THEN <<"Health check failed">> ELSE <<"Metrics fetch failed">>

\* the catch blocks of the two routes
ProbeCatchReply(route, message) ==
    IF route = "/health"
    THEN [status |-> 503, message |-> "Service unavailable", details |-> message,
          code |-> "HEALTH_CHECK_ERROR", body |-> NoBody]
    ELSE [status |-> 500, message |-> "Metrics unavailable", details |-> message,
          code |-> "METRICS_ERROR", body |-> NoBody]

\* return { status: 'ok', ...health }: a status member of health replaces 'ok'
HealthReply(health) ==
    [status |-> 200, message |-> "", details |-> NoText, code |-> "",
     body |-> JsonBody(IF health.status = Undefined THEN Str(<<"ok">>)
                       ELSE health.status)]

\* return metrics
MetricsReply(metrics) ==
    [status |-> 200, message |-> "", details |-> NoText, code |-> "", body |-> metrics]

----------------------------------------------------------------------------
(* The storage upload: SupabaseService.uploadFile *)

NoUpload == [state |-> "none", buf |-> NoBuf]

\* error.message of a failed storage upload
UploadErrorTexts == {"new row violates row-level security policy"}

----------------------------------------------------------------------------
(* Initial state: the server is listening and no request has arrived *)

\* the process runs and no request has arrived
NoTraffic ==
    /\ processUp = TRUE
    /\ pc = [r \in Reqs |-> "idle"]
    /\ req = [r \in Reqs |-> NoRequest]
    /\ engineReq = [r \in Reqs |-> NoEngineReq]
    /\ engineCalls = [r \in Reqs |-> 0]
    /\ engine = [r \in Reqs |-> NoEngine]
    /\ timer = [r \in Reqs |-> "unset"]
    /\ upload = [r \in Reqs |-> NoUpload]
    /\ uploadCalls = [r \in Reqs |-> 0]
    /\ response = [r \in Reqs |-> NoResponse]
    /\ replies = [r \in Reqs |-> 0]
    /\ logged = [r \in Reqs |-> NoText]
    /\ requestsTotal = 0
    /\ bytesTotal = 0
    /\ headers = [r \in Reqs |-> NoHeaders]
    /\ probe = NoProbe
    /\ util = NoCall

\* the server is listening, started with the default environment
Init ==
    /\ NoTraffic
    /\ env = DefaultEnv
    /\ boot = Listening

\* the server is listening, started with or without an API key
InitAuth ==
    /\ NoTraffic
    /\ env \in { [DefaultEnv EXCEPT !.API_KEY = a] : a \in EnvSettings("secret") }
    /\ boot = Listening

\* the process has just been started, in any environment
InitStart ==
    /\ NoTraffic
    /\ env \in Envs
    /\ boot = Starting

----------------------------------------------------------------------------
(* Steps of the POST /compress handler *)

\* variant: a failed compression tried again instead of ending the request
AfterReplyRetry(resp) ==
    IF resp.code = "COMPRESSION_ERROR" THEN "buffering" ELSE "done"

\* every reply of the handler is `return reply...send(...)`: the handler ends
AfterReply(resp) == "done"

\* reply.send: request r is answered and its handler ends
Send(r, resp) ==
    /\ response' = [response EXCEPT ![r] = resp]
    /\ replies' = [replies EXCEPT ![r] = @ + 1]
    /\ pc' = [pc EXCEPT ![r] = AfterReply(resp)]

\* an error with this message is raised at the await named where; escStatus
\* and escCode are the error's own statusCode and code.  Inside the try block
\* the catch logs it and answers; outside, the framework answers from the
\* error's fields; a rejection nobody awaits reaches process.on(
\* 'unhandledRejection'), which exits the process (server.js 77-80).
Raise(r, where, message, escStatus, escText, escCode) ==
    IF ErrorRoute(where) = "catch"
    THEN /\ logged' = [logged EXCEPT ![r] = message]
         /\ Send(r, CatchReply(message))
         /\ UNCHANGED processUp
    ELSE IF ErrorRoute(where) = "framework"
    THEN /\ logged' = [logged EXCEPT ![r] = message]
         /\ Send(r, EscapedReply(escStatus, escText, escCode))
         /\ UNCHANGED processUp
    ELSE /\ logged' = [logged EXCEPT ![r] = message]
         /\ processUp' = FALSE
         /\ pc' = [pc EXCEPT ![r] = "lost"]
         /\ UNCHANGED << response, replies >>

\* a request arrives and the handler awaits request.file(); requests are
\* numbered in their order of arrival
ArriveWith(r, inputs) ==
    /\ processUp
    /\ boot.pc = "listening"
    /\ pc[r] = "idle"
    /\ \A q \in Reqs : q < r => pc[q] # "idle"
    /\ \E input \in inputs : req' = [req EXCEPT ![r] = input]
    /\ pc' = [pc EXCEPT ![r] = "file"]
    /\ UNCHANGED << processUp, engineReq, engineCalls, engine, timer, upload,
                    uploadCalls, response, replies, logged, requestsTotal, bytesTotal >>
    /\ UNCHANGED << util, env, boot, headers, probe >>

\* concurrent requests, sent without form fields
Arrive(r) ==
    ArriveWith(r, RequestInputs(r, {Undefined}, {Undefined}))

\* one request with any of the form fields
ArriveForm(r) ==
    ArriveWith(r, RequestInputs(r, QualityFields, FormatFields))

\* lines 156-173: request.file() has resolved; validateFileUpload; an invalid
\* upload is answered 400, a valid one goes on to await data.toBuffer()
Validate(r) ==
    /\ processUp
    /\ pc[r] = "file"
    /\ \E bytesRead \in BytesReadAtValidation(r) :
         LET validation == validateFileUpload(req[r].hasFile, req[r].mimetype,
                                              bytesRead, maxSize, allowedMimeTypes)
         IN  IF ~validation.isValid
             THEN Send(r, ErrorReply(400, createErrorResponse("Invalid file",
                                          validation.error, "VALIDATION_ERROR")))
             ELSE /\ pc' = [pc EXCEPT ![r] = "buffering"]
                  /\ UNCHANGED << response, replies >>
    /\ UNCHANGED << processUp, req, engineReq, engineCalls, engine, timer, upload,
                    uploadCalls, logged, requestsTotal, bytesTotal >>
    /\ UNCHANGED << util, env, boot, headers, probe >>

\* lines 173-185: data.toBuffer() settles.  A part longer than limits.fileSize
\* was truncated by the parser and toBuffer rejects with the plugin's
\* file-too-large error (statusCode 413), outside the try block.  Otherwise
\* the handler calls compressImage, which arms its timer and issues the fetch.
BufferDone(r) ==
    /\ processUp
    /\ pc[r] = "buffering"
    /\ IF req[r].payload.len > fileSizeLimit
       THEN /\ Raise(r, "toBuffer", <<"request file too large">>, 413,
                     "request file too large", "FST_REQ_FILE_TOO_LARGE")
            /\ UNCHANGED << engineReq, engineCalls, engine, timer >>
       ELSE /\ engineReq' = [engineReq EXCEPT ![r] = EngineRequest(r)]
            /\ engineCalls' = [engineCalls EXCEPT ![r] = @ + 1]
            /\ engine' = [engine EXCEPT ![r].state = "pending"]
            /\ timer' = [timer EXCEPT ![r] = "armed"]
            /\ pc' = [pc EXCEPT ![r] = "fetching"]
            /\ UNCHANGED << processUp, response, replies, logged >>
    /\ UNCHANGED << req, upload, uploadCalls, requestsTotal, bytesTotal >>
    /\ UNCHANGED << util, env, boot, headers, probe >>

\* the engine handles the call of request r (modelled from the specification):
\* it fixes the quality, decodes and encodes, counts the request and, on
\* success, the bytes it produced.  It runs whether or not the gateway still
\* waits for the answer.
EngineHandle(r) ==
    /\ engine[r].state = "pending"
    /\ \E result \in ({[status |-> 200, text |-> ""]}
                      \cup {[status |-> 400, text |-> t] : t \in DecodeErrorTexts}
                      \cup {[status |-> 500, text |-> t] : t \in EncodeErrorTexts}) :
         LET q   == EngineQuality(engineReq[r].quality)
             out == IF result.status = 200
                    THEN EngineOutput(engineReq[r].body, q) ELSE NoBuf
         IN  /\ engine' = [engine EXCEPT ![r] =
                     [state |-> "answered", status |-> result.status,
                      text |-> result.text, out |-> out, quality |-> q]]
             /\ requestsTotal' = CountedRequests(requestsTotal, result.status)
             /\ bytesTotal' = CountedBytes(bytesTotal, result.status, out)
    /\ UNCHANGED << processUp, pc, req, engineReq, engineCalls, timer, upload,
                    uploadCalls, response, replies, logged >>
    /\ UNCHANGED << util, env, boot, headers, probe >>

\* services/compression.js 19-28: the fetch resolves with the engine's status
\* line and headers; compressImage goes on to await the body
FetchResolve(r) ==
    /\ processUp
    /\ pc[r] = "fetching"
    /\ engine[r].state = "answered"
    /\ pc' = [pc EXCEPT ![r] = "reading"]
    /\ UNCHANGED << processUp, req, engineReq, engineCalls, engine, timer, upload,
                    uploadCalls, response, replies, logged, requestsTotal, bytesTotal >>
    /\ UNCHANGED << util, env, boot, headers, probe >>

\* variant: compressImage without its finally block
clearTimeoutSkipped(handle) == handle

\* finally { clearTimeout(timeoutId) }: a timer that has not fired is
\* cancelled; for one that has fired there is nothing left to cancel
clearTimeout(handle) == IF handle = "armed" THEN "cleared" ELSE handle

\* variant: the status of the engine's answer not looked at
responseOkAlways(status) == TRUE

\* response.ok of fetch's Response
responseOk(status) == status \in 200..299

\* services/compression.js 30-38 and routes 187-192: the body has arrived.
\* Not ok: compressImage throws `Compression failed: ${text}`.  Ok: it returns
\* the buffer and the handler calls uploadFile.  Either way the finally block
\* clears the timer.
BodyDone(r) ==
    /\ processUp
    /\ pc[r] = "reading"
    /\ timer' = [timer EXCEPT ![r] = clearTimeout(@)]
    /\ IF ~responseOk(engine[r].status)
       THEN /\ Raise(r, "compressImage", <<"Compression failed: ", engine[r].text>>,
                     500, "Internal Server Error", "")
            /\ UNCHANGED << upload, uploadCalls >>
       ELSE /\ upload' = [upload EXCEPT ![r] = [state |-> "pending", buf |-> engine[r].out]]
            /\ uploadCalls' = [uploadCalls EXCEPT ![r] = @ + 1]
            /\ pc' = [pc EXCEPT ![r] = "uploading"]
            /\ UNCHANGED << processUp, response, replies, logged >>
    /\ UNCHANGED << req, engineReq, engineCalls, engine, requestsTotal, bytesTotal >>
    /\ UNCHANGED << util, env, boot, headers, probe >>

\* the connection to the engine fails while the fetch or its body is awaited:
\* fetch rejects with its own error, whose message is not compressImage's
FetchFail(r) ==
    /\ processUp
    /\ pc[r] \in {"fetching", "reading"}
    /\ timer' = [timer EXCEPT ![r] = clearTimeout(@)]
    /\ Raise(r, "compressImage", <<"fetch failed">>, 500, "Internal Server Error", "")
    /\ UNCHANGED << req, engineReq, engineCalls, engine, upload, uploadCalls,
                    requestsTotal, bytesTotal >>
    /\ UNCHANGED << util, env, boot, headers, probe >>

\* variant: one AbortController and timer kept by the service for all its
\* calls, so that the expiry aborts every call in flight
TimeoutShared(r) ==
    /\ processUp
    /\ timer[r] = "armed"
    /\ LET inflight == { q \in Reqs : timer[q] = "armed" }
           reply    == CatchReply(<<"This operation was aborted">>)
       IN  /\ timer' = [q \in Reqs |-> IF q \in inflight THEN "fired" ELSE timer[q]]
           /\ logged' = [q \in Reqs |-> IF q \in inflight
                                         THEN <<"This operation was aborted">>
                                         ELSE logged[q]]
           /\ response' = [q \in Reqs |-> IF q \in inflight THEN reply ELSE response[q]]
           /\ replies' = [q \in Reqs |-> IF q \in inflight THEN replies[q] + 1
                                          ELSE replies[q]]
           /\ pc' = [q \in Reqs |-> IF q \in inflight THEN "done" ELSE pc[q]]
    /\ UNCHANGED << processUp, req, engineReq, engineCalls, engine, upload, uploadCalls,
                    requestsTotal, bytesTotal >>
    /\ UNCHANGED << util, env, boot, headers, probe >>

\* services/compression.js 16: config.rust.timeout has passed and the call has
\* not settled: controller.abort() rejects the pending fetch or body read
\* with the abort error
Timeout(r) ==
    /\ processUp
    /\ timer[r] = "armed"
    /\ timer' = [timer EXCEPT ![r] = clearTimeout("fired")]
    /\ Raise(r, "compressImage", <<"This operation was aborted">>, 500,
             "Internal Server Error", "")
    /\ UNCHANGED << req, engineReq, engineCalls, engine, upload, uploadCalls,
                    requestsTotal, bytesTotal >>
    /\ UNCHANGED << util, env, boot, headers, probe >>

\* variant: the Content-Type header left to the framework, which labels a
\* Buffer application/octet-stream
SuccessReplyUnlabelled(compressedBuffer) ==
    [status |-> 200, ctype |-> "application/octet-stream", message |-> "",
     details |-> NoText, code |-> "", body |-> compressedBuffer]

\* reply.header('Content-Type', 'image/jpeg'); reply.send(compressedBuffer)
SuccessReply(compressedBuffer) ==
    [status |-> 200, ctype |-> "image/jpeg", message |-> "",
     details |-> NoText, code |-> "", body |-> compressedBuffer]

\* routes 188-195 and SupabaseService.uploadFile: the upload settles.  On an
\* error uploadFile throws `Supabase upload failed: ${error.message}`; on
\* success the handler sends the compressed buffer as image/jpeg.
UploadDone(r) ==
    /\ processUp
    /\ pc[r] = "uploading"
    /\ \/ /\ upload' = [upload EXCEPT ![r].state = "stored"]
          /\ Send(r, SuccessReply(upload[r].buf))
          /\ UNCHANGED << processUp, logged >>
       \/ /\ upload' = [upload EXCEPT ![r].state = "failed"]
          /\ \E t \in UploadErrorTexts :
                Raise(r, "uploadFile", <<"Supabase upload failed: ", t>>, 500,
                      "Internal Server Error", "")
    /\ UNCHANGED << req, engineReq, engineCalls, engine, timer, uploadCalls,
                    requestsTotal, bytesTotal >>
    /\ UNCHANGED << util, env, boot, headers, probe >>

----------------------------------------------------------------------------
(* The API key hook in front of the handlers *)

\* a request arrives at a server that may have the API key hook: the hook,
\* when added, runs before the handler
ArriveKeyed(r) ==
    /\ processUp
    /\ boot.pc = "listening"
    /\ pc[r] = "idle"
    /\ \A q \in Reqs : q < r => pc[q] # "idle"
    /\ \E input \in RequestInputs(r, {Undefined}, {Undefined}) :
          req' = [req EXCEPT ![r] = input]
    /\ \E key \in ApiKeyHeaders :
          headers' = [headers EXCEPT ![r] = [xApiKey |-> key]]
    /\ pc' = [pc EXCEPT ![r] = IF HookAdded(Config(env)) THEN "hook" ELSE "file"]
    /\ UNCHANGED << processUp, engineReq, engineCalls, engine, timer, upload,
                    uploadCalls, response, replies, logged, requestsTotal, bytesTotal >>
    /\ UNCHANGED << util, env, boot, probe >>

\* middleware.js 9-22: the hook runs; a reply sent from the hook ends the
\* request, otherwise the handler is entered
Authenticate(r) ==
    /\ processUp
    /\ pc[r] = "hook"
    /\ IF apiKeyAuth(Config(env), headers[r]) = "reply401"
       THEN Send(r, ErrorReply(401, createErrorResponse("Unauthorized",
                         <<"Invalid or missing API key">>, "AUTH_ERROR")))
       ELSE /\ pc' = [pc EXCEPT ![r] = "file"]
            /\ UNCHANGED << response, replies >>
    /\ UNCHANGED << processUp, req, engineReq, engineCalls, engine, timer, upload,
                    uploadCalls, logged, requestsTotal, bytesTotal >>
    /\ UNCHANGED << util, env, boot, headers, probe >>

----------------------------------------------------------------------------
(* Startup: server.js from its first line to fastify.listen *)

\* server.js 18-27: require('./config') evaluates config.js, whose check of
\* the required variables throws out of the module; nothing catches it and
\* the process ends.  server.js then repeats the check and exits by itself.
LoadConfig ==
    /\ processUp
    /\ boot.pc = "require"
    /\ LET cfg     == Config(env)
           missing == FirstMissing(requiredConfig(cfg))
       IN  IF missing # ""
           THEN /\ boot' = Exited(boot, "crashed",
                                  <<"Missing required environment variable: ", missing>>, 1)
                /\ processUp' = FALSE
           ELSE IF ~Truthy(cfg.supabase.url) \/ ~Truthy(cfg.supabase.key)
           THEN /\ boot' = Exited(boot, "exited",
                                  <<"Missing required Supabase configuration">>, 1)
                /\ processUp' = FALSE
           ELSE /\ boot' = [boot EXCEPT !.pc = StartOrder[1]]
                /\ UNCHANGED processUp
    /\ UNCHANGED << pc, req, engineReq, engineCalls, engine, timer, upload,
                    uploadCalls, response, replies, logged, requestsTotal, bytesTotal >>
    /\ UNCHANGED << util, env, headers, probe >>

\* server.js 83-99: the next step of start().  A step that throws rejects the
\* awaited promise; the catch of start() logs the error and exits with 1.
StartStep ==
    /\ processUp
    /\ \E i \in 1..Len(StartOrder) : boot.pc = StartOrder[i]
    /\ LET error == StepError(boot.pc, Config(env), MiddlewareExports)
       IN  IF error # NoText
           THEN /\ boot' = Exited(boot, "exited", error, 1)
                /\ processUp' = FALSE
           ELSE /\ boot' = [boot EXCEPT !.pc = AfterStep(boot.pc),
                                        !.done = Append(@, boot.pc)]
                /\ UNCHANGED processUp
    /\ UNCHANGED << pc, req, engineReq, engineCalls, engine, timer, upload,
                    uploadCalls, response, replies, logged, requestsTotal, bytesTotal >>
    /\ UNCHANGED << util, env, headers, probe >>

----------------------------------------------------------------------------
(* Steps of GET /health and GET /metrics *)

\* a probe arrives; its handler calls getHealth or getMetrics, which issues
\* the fetch to the engine
ProbeArrive ==
    /\ processUp
    /\ boot.pc = "listening"
    /\ probe.pc = "idle"
    /\ \E route \in ProbeRoutes :
          probe' = [NoProbe EXCEPT !.route = route, !.pc = "fetching",
                                   !.engine.state = "pending"]
    /\ UNCHANGED << processUp, pc, req, engineReq, engineCalls, engine, timer, upload,
                    uploadCalls, response, replies, logged, requestsTotal, bytesTotal >>
    /\ UNCHANGED << util, env, boot, headers >>

\* the engine answers the probe (modelled from the specification)
ProbeEngineAnswer ==
    /\ probe.engine.state = "pending"
    /\ \E answer \in (IF probe.route = "/health" THEN HealthAnswers
                      ELSE MetricsAnswers(requestsTotal, bytesTotal)) :
          probe' = [probe EXCEPT !.engine = answer]
    /\ UNCHANGED << processUp, pc, req, engineReq, engineCalls, engine, timer, upload,
                    uploadCalls, response, replies, logged, requestsTotal, bytesTotal >>
    /\ UNCHANGED << util, env, boot, headers >>

\* services/compression.js 46-52 and 62-68: the fetch resolves.  Not ok: the
\* service throws and the route's catch answers.  Ok: the service goes on to
\* await response.json().
ProbeFetchDone ==
    /\ processUp
    /\ probe.pc = "fetching"
    /\ probe.engine.state = "answered"
    /\ IF ~responseOk(probe.engine.status)
       THEN probe' = [probe EXCEPT !.pc = "done",
                         !.response = ProbeCatchReply(probe.route, NotOkMessage(probe.route))]
       ELSE probe' = [probe EXCEPT !.pc = "reading"]
    /\ UNCHANGED << processUp, pc, req, engineReq, engineCalls, engine, timer, upload,
                    uploadCalls, response, replies, logged, requestsTotal, bytesTotal >>
    /\ UNCHANGED << util, env, boot, headers >>

\* services/compression.js 54 and 70, routes 218-227 and 233-242:
\* response.json() settles; a body that is not JSON rejects it and the
\* route's catch answers; otherwise the route returns its object
ProbeBodyDone ==
    /\ processUp
    /\ probe.pc = "reading"
    /\ LET parsed == ResponseJson(probe.engine.body)
       IN  IF ~parsed.ok
           THEN probe' = [probe EXCEPT !.pc = "done",
                             !.response = ProbeCatchReply(probe.route, parsed.error)]
           ELSE IF probe.route = "/health"
           THEN probe' = [probe EXCEPT !.pc = "done", !.response = HealthReply(parsed.value)]
           ELSE probe' = [probe EXCEPT !.pc = "done", !.response = MetricsReply(parsed.value)]
    /\ UNCHANGED << processUp, pc, req, engineReq, engineCalls, engine, timer, upload,
                    uploadCalls, response, replies, logged, requestsTotal, bytesTotal >>
    /\ UNCHANGED << util, env, boot, headers >>

\* the engine cannot be reached, or the connection breaks: the fetch or the
\* body read rejects and the route's catch answers
ProbeFetchFail ==
    /\ processUp
    /\ probe.pc \in {"fetching", "reading"}
    /\ probe' = [probe EXCEPT !.pc = "done",
                    !.response = ProbeCatchReply(probe.route, <<"fetch failed">>)]
    /\ UNCHANGED << processUp, pc, req, engineReq, engineCalls, engine, timer, upload,
                    uploadCalls, response, replies, logged, requestsTotal, bytesTotal >>
    /\ UNCHANGED << util, env, boot, headers >>

----------------------------------------------------------------------------
(* Calls of the functions of utils *)

\* validateFileUpload is called with any file, or none
CallValidateFileUpload ==
    /\ \E hasFile \in BOOLEAN, mimetype \in Mimetypes, bytesRead \in 0..(maxSize + 1) :
          util' = [fn |-> "validateFileUpload", hasFile |-> hasFile,
                   mimetype |-> mimetype, bytesRead |-> bytesRead,
                   result |-> validateFileUpload(hasFile, mimetype, bytesRead,
                                                 maxSize, allowedMimeTypes)]
    /\ UNCHANGED << processUp, pc, req, engineReq, engineCalls, engine, timer, upload,
                    uploadCalls, response, replies, logged, requestsTotal, bytesTotal >>
    /\ UNCHANGED << env, boot, headers, probe >>

\* parseQuality is called with any quality and default
CallParseQuality ==
    /\ \E quality \in QualityInputs, defaultQuality \in DefaultQualities :
          util' = [fn |-> "parseQuality", quality |-> quality,
                   defaultQuality |-> defaultQuality,
                   result |-> parseQuality(quality, defaultQuality)]
    /\ UNCHANGED << processUp, pc, req, engineReq, engineCalls, engine, timer, upload,
                    uploadCalls, response, replies, logged, requestsTotal, bytesTotal >>
    /\ UNCHANGED << env, boot, headers, probe >>

----------------------------------------------------------------------------
(* Specifications *)

Next ==
    \E r \in Reqs :
        \/ Arrive(r)
        \/ Validate(r)
        \/ BufferDone(r)
        \/ EngineHandle(r)
        \/ FetchResolve(r)
        \/ BodyDone(r)
        \/ FetchFail(r)
        \/ Timeout(r)
        \/ UploadDone(r)

Spec == Init /\ [][Next]_vars

\* a single request, over every form field a client may send
NextForm ==
    \/ ArriveForm(1)
    \/ Validate(1)
    \/ BufferDone(1)
    \/ EngineHandle(1)
    \/ FetchResolve(1)
    \/ BodyDone(1)
    \/ FetchFail(1)
    \/ Timeout(1)
    \/ UploadDone(1)

SpecForm == Init /\ [][NextForm]_vars

\* one request to a server started with or without an API key
NextAuth ==
    \/ ArriveKeyed(1)
    \/ Authenticate(1)
    \/ Validate(1)
    \/ BufferDone(1)
    \/ EngineHandle(1)
    \/ FetchResolve(1)
    \/ BodyDone(1)
    \/ FetchFail(1)
    \/ Timeout(1)
    \/ UploadDone(1)

SpecAuth == InitAuth /\ [][NextAuth]_vars

\* the process from its start
NextStart ==
    \/ LoadConfig
    \/ StartStep

SpecStart == InitStart /\ [][NextStart]_vars

\* a probe of /health or /metrics beside one /compress request
NextProbe ==
    \/ Arrive(1)
    \/ Validate(1)
    \/ BufferDone(1)
    \/ EngineHandle(1)
    \/ FetchResolve(1)
    \/ BodyDone(1)
    \/ FetchFail(1)
    \/ Timeout(1)
    \/ UploadDone(1)
    \/ ProbeArrive
    \/ ProbeEngineAnswer
    \/ ProbeFetchDone
    \/ ProbeBodyDone
    \/ ProbeFetchFail

SpecProbe == Init /\ [][NextProbe]_vars

\* what the gateway's own scheduling guarantees: a handler is resumed when
\* what it awaits has settled, an answer the engine has sent is delivered,
\* and an armed timer fires.  Nothing makes the engine answer, the connection
\* fail or the storage finish.
Scheduling ==
    /\ WF_vars(Validate(1))
    /\ WF_vars(BufferDone(1))
    /\ WF_vars(FetchResolve(1))
    /\ WF_vars(BodyDone(1))
    /\ WF_vars(Timeout(1))
    /\ WF_vars(ProbeFetchDone)
    /\ WF_vars(ProbeBodyDone)

\* a probe beside one /compress request, under that scheduling
SpecLive == Init /\ [][NextProbe]_vars /\ Scheduling

\* the functions of utils, called with any arguments
NextUtils ==
    \/ CallValidateFileUpload
    \/ CallParseQuality

SpecUtils == Init /\ [][NextUtils]_vars

----------------------------------------------------------------------------
(* Properties *)

Answered(r) == replies[r] > 0

Oversized(r) == req[r].hasFile /\ req[r].payload.len > maxSize

\* C1: a /compress request whose file is larger than config.upload.maxSize
\* (one byte larger included) never reaches the engine, and the answer it
\* gets is a client error that names the size, not a decode failure
C1_OversizeRejectedBeforeEngine ==
    \A r \in Reqs :
        Oversized(r) /\ req[r].mimetype \in allowedMimeTypes =>
            /\ engineCalls[r] = 0
            /\ ~engineReq[r].sent
            /\ engine[r].state = "none"
            /\ pc[r] \in {"file", "buffering", "done"}
            /\ Answered(r) =>
                  /\ response[r].status \in 400..499
                  /\ \/ response[r].code = "FST_REQ_FILE_TOO_LARGE"
                     \/ /\ response[r].code = "VALIDATION_ERROR"
                        /\ response[r].details[1] = "File too large. Maximum size allowed: "

C1_Witness ==
    \E r \in Reqs :
        /\ req[r].hasFile
        /\ req[r].payload.len = maxSize + 1
        /\ Answered(r)
        /\ response[r].status = 413

\* the quality values the specification names as replaced by the default
BadQualityFields ==
    { Undefined, Str(<<"0">>), Str(<<"1","0","1">>), Str(<<"a","b","c">>) }

\* C2: a request whose quality field is 0, 101, "abc" or absent is never
\* failed because of it (a client error is due to the file alone), and the
\* engine works on it with the default quality, 80, and so produces what it
\* produces for the same file at quality 80
C2_BadQualityMeansDefault ==
    \A r \in Reqs :
        pc[r] # "idle" /\ req[r].quality \in BadQualityFields =>
            /\ Answered(r) /\ response[r].status \in 400..499 =>
                  \/ ~req[r].hasFile
                  \/ req[r].mimetype \notin allowedMimeTypes
                  \/ Oversized(r)
            /\ engine[r].state = "answered" =>
                  /\ engine[r].quality = DefaultQuality
                  /\ engine[r].status = 200 =>
                        engine[r].out = EngineOutput(req[r].payload, DefaultQuality)

C2_Witness ==
    \E r \in Reqs :
        /\ req[r].quality = Str(<<"a","b","c">>)
        /\ engine[r].state = "answered"
        /\ engine[r].quality = DefaultQuality
        /\ Answered(r)
        /\ response[r].status = 200

\* the text of an integer between 1 and 100
IsQualityText(v) ==
    /\ v.t = "string"
    /\ Len(v.s) > 0
    /\ \A i \in 1..Len(v.s) : IsDigit(v.s[i])
    /\ DecimalValue(v.s) \in 1..100

CompressionFailedFor(r) ==
    /\ Answered(r)
    /\ Len(logged[r]) > 0
    /\ logged[r][1] = "Compression failed: "

C5_ServerErrorHidesDetail ==
    \A r1, r2 \in Reqs :
        /\ CompressionFailedFor(r1) /\ CompressionFailedFor(r2)
        /\ response[r1].status >= 500 /\ response[r2].status >= 500
        /\ engine[r1].status = engine[r2].status
        => response[r1] = response[r2]

\* C6 as stated: a call aborted by the timeout is answered with a timeout or
\* unavailability signal, not with the answer of another kind of failure
C6_TimeoutSurfacedAsTimeout ==
    \A r \in Reqs :
        timer[r] = "fired" /\ Answered(r) =>
            /\ response[r].status \in {503, 504}
            /\ response[r].code \notin {"UPLOAD_ERROR", "COMPRESSION_ERROR"}

\* the requests whose call the engine has handled
Handled == { r \in Reqs : engine[r].state = "answered" }

RECURSIVE OutputBytes(_)
OutputBytes(S) ==
    IF S = {} THEN 0
    ELSE LET r == CHOOSE x \in S : TRUE
         IN  (IF engine[r].status = 200 THEN engine[r].out.len ELSE 0)
             + OutputBytes(S \ {r})

\* C7: the request counter equals the number of invocations the engine has
\* completed, failed ones included, and the bytes-processed counter equals
\* the sum of the output sizes of the successful ones
C7_CountersAccurate ==
    /\ requestsTotal = Cardinality(Handled)
    /\ bytesTotal = OutputBytes(Handled)

C7_Witness ==
    \E r1, r2 \in Reqs :
        /\ engine[r1].state = "answered" /\ engine[r1].status = 200
        /\ engine[r2].state = "answered" /\ engine[r2].status # 200
        /\ requestsTotal = 2
        /\ bytesTotal = engine[r1].out.len

\* C8: whatever the interleaving, what is sent to the engine for a request
\* is that request's own file, what is uploaded is the engine's output for
\* that file, what is returned is the uploaded buffer or the error logged
\* for that request, and a request is answered once and only once
C8_RequestsIndependent ==
    \A r \in Reqs :
        /\ engineReq[r].sent => engineReq[r].body = req[r].payload
        /\ engine[r].state = "answered" /\ engine[r].status = 200 =>
              engine[r].out.src = r
        /\ upload[r].state # "none" =>
              /\ upload[r].buf = engine[r].out
              /\ upload[r].buf.src = r
        /\ Answered(r) /\ response[r].status = 200 =>
              /\ response[r].body = upload[r].buf
              /\ response[r].body.src = r
        /\ Answered(r) /\ response[r].status >= 500 =>
              response[r].details = logged[r]
        /\ replies[r] <= 1
        /\ pc[r] = "done" <=> replies[r] = 1

C8_Witness ==
    \A r \in Reqs :
        /\ Answered(r)
        /\ response[r].status = 200
        /\ response[r].body.src = r

\* C9: the process never exits because of a request: an oversized upload, a
\* failure of the engine, a timeout, a failed upload are each answered
\* (every error raised while handling a request ends in a response to it)
C9_FailuresAnsweredProcessAlive ==
    /\ processUp
    /\ \A r \in Reqs :
          /\ pc[r] # "lost"
          /\ logged[r] # NoText => Answered(r) /\ response[r].status >= 400
          /\ upload[r].state = "failed" => Answered(r)
          /\ timer[r] = "fired" => Answered(r)

C9_Witness ==
    /\ processUp
    /\ timer[1] = "fired" /\ response[1].status = 500
    /\ upload[2].state = "failed" /\ response[2].status = 500

\* C10: for each request the engine is called at most once and the upload
\* attempted at most once; a failure of the engine step ends the request with
\* an error and without an upload, a failure of the upload ends it with an
\* error
C10_NoRetry ==
    \A r \in Reqs :
        /\ engineCalls[r] <= 1
        /\ uploadCalls[r] <= 1
        /\ logged[r] # NoText =>
              /\ pc[r] = "done"
              /\ response[r].status >= 400
        /\ timer[r] = "fired" \/ CompressionFailedFor(r) => uploadCalls[r] = 0
        /\ upload[r].state = "failed" =>
              pc[r] = "done" /\ response[r].status = 500

C10_Witness ==
    \E r \in Reqs :
        /\ CompressionFailedFor(r)
        /\ pc[r] = "done"
        /\ engineCalls[r] = 1
        /\ uploadCalls[r] = 0

\* the upload of r passed validateFileUpload
ValidUpload(r) == req[r].hasFile /\ req[r].mimetype \in allowedMimeTypes

\* C11: for every /compress request the engine is called only after the
\* upload passed validation, the storage upload is attempted only after the
\* engine answered with success (never after a failure of the engine or an
\* abort by the timeout), the upload is still unanswered while it is pending,
\* and a success response is sent only after the upload succeeded
C11_FlowOrdering ==
    \A r \in Reqs :
        /\ engineCalls[r] > 0 =>
              /\ ValidUpload(r)
              /\ pc[r] \notin {"idle", "hook", "file", "buffering"}
        /\ uploadCalls[r] > 0 =>
              /\ engineCalls[r] = 1
              /\ engine[r].state = "answered"
              /\ engine[r].status = 200
              /\ timer[r] = "cleared"
              /\ ~CompressionFailedFor(r)
        /\ upload[r].state = "pending" => ~Answered(r)
        /\ Answered(r) /\ response[r].status = 200 =>
              /\ uploadCalls[r] = 1
              /\ upload[r].state = "stored"

C11_Witness ==
    \E r \in Reqs :
        /\ Answered(r)
        /\ response[r].status = 200
        /\ upload[r].state = "stored"
        /\ engine[r].status = 200
        /\ engineCalls[r] = 1

C13_SuccessIsJsonSummary ==
    \A r \in Reqs :
        Answered(r) /\ response[r].status = 200 =>
            /\ response[r].ctype = "application/json"
            /\ response[r].body = NoBuf

\* C14 as stated: GET /health is answered with success and the fixed status
\* "ok", whatever the engine does
C14_HealthFixed ==
    probe.route = "/health" /\ probe.pc = "done" =>
        /\ probe.response.status = 200
        /\ probe.response.body = JsonBody(Str(<<"ok">>))

\* C15 as stated: when the engine answered /metrics with success and its text
\* exposition, and the gateway received that answer, GET /metrics is answered
\* with success and exposes those counters
C15_MetricsExposed ==
    /\ probe.route = "/metrics" /\ probe.pc = "done"
    /\ probe.engine.state = "answered" /\ probe.engine.status = 200
    /\ probe.response.details # <<"fetch failed">>
    => /\ probe.response.status = 200
       /\ probe.response.body = probe.engine.body

\* the key check lets request r through: no key is configured, or the
\* request's x-api-key header equals the configured key
KeyAccepted(r) ==
    \/ ~Truthy(Config(env).security.apiKey)
    \/ headers[r].xApiKey = Config(env).security.apiKey

\* C16: once the hook has run, a request whose key is accepted is not
\* answered 401 and is in (or through) its handler; any other request has
\* been answered 401 AUTH_ERROR, its handler was never entered, and neither
\* the engine nor the storage was called for it
C16_ApiKeyAuth ==
    \A r \in Reqs :
        pc[r] \notin {"idle", "hook"} =>
            /\ KeyAccepted(r) =>
                  /\ response[r].status # 401
                  /\ response[r].code # "AUTH_ERROR"
            /\ ~KeyAccepted(r) =>
                  /\ pc[r] = "done"
                  /\ replies[r] = 1
                  /\ response[r].status = 401
                  /\ response[r].code = "AUTH_ERROR"
                  /\ engineCalls[r] = 0
                  /\ ~engineReq[r].sent
                  /\ engine[r].state = "none"
                  /\ uploadCalls[r] = 0
                  /\ upload[r].state = "none"

C16_Witness ==
    \E r \in Reqs :
        /\ Config(env).security.apiKey = Str(<<"secret">>)
        /\ headers[r].xApiKey = Str(<<"guess">>)
        /\ ValidUpload(r)
        /\ response[r].status = 401
        /\ engineCalls[r] = 0

\* C17 as stated: started with SUPABASE_URL and SUPABASE_KEY set and every
\* other setting at its default, the process does not end in a startup error
C17_StartupReachesServing ==
    /\ Truthy(env.SUPABASE_URL) /\ Truthy(env.SUPABASE_KEY)
    /\ env.API_KEY = Undefined /\ env.RATE_LIMIT_MAX = Undefined
    => /\ boot.pc \notin {"exited", "crashed"}
       /\ boot.exitCode = 0
       /\ processUp

\* C18: once ./config has been loaded: loading failed exactly when
\* SUPABASE_URL or SUPABASE_KEY is unset or empty; the error names
\* SUPABASE_URL when that is missing and SUPABASE_KEY only when it alone is;
\* after the failure the process is gone, no step of start() ran, nothing
\* listens and no request was served; with both set no such error is raised
C18_RequiredConfigEnforced ==
    boot.pc # "require" =>
        /\ (~Truthy(env.SUPABASE_URL) \/ ~Truthy(env.SUPABASE_KEY)) <=> boot.pc = "crashed"
        /\ ~Truthy(env.SUPABASE_URL) =>
              boot.error = <<"Missing required environment variable: ", "SUPABASE_URL">>
        /\ Truthy(env.SUPABASE_URL) /\ ~Truthy(env.SUPABASE_KEY) =>
              boot.error = <<"Missing required environment variable: ", "SUPABASE_KEY">>
        /\ boot.pc = "crashed" =>
              /\ ~processUp
              /\ boot.exitCode = 1
              /\ boot.done = << >>
              /\ probe.pc = "idle"
              /\ \A r \in Reqs : pc[r] = "idle" /\ replies[r] = 0
        /\ Truthy(env.SUPABASE_URL) /\ Truthy(env.SUPABASE_KEY) =>
              \/ boot.error = NoText
              \/ boot.error[1] # "Missing required environment variable: "

C18_Witness ==
    /\ env.SUPABASE_URL = Str(<< >>)
    /\ env.SUPABASE_KEY = Undefined
    /\ boot.pc = "crashed"
    /\ boot.error = <<"Missing required environment variable: ", "SUPABASE_URL">>

\* C19 as stated: a quality between 1 and 100 supplied in the form is the
\* value of the X-Compression-Quality header sent to the engine, and the
\* quality the engine works with
C19_ClientQualityHonoured ==
    \A r \in Reqs :
        IsQualityText(req[r].quality) =>
            /\ engineReq[r].sent => engineReq[r].quality = req[r].quality
            /\ engine[r].state = "answered" =>
                  engine[r].quality = DecimalValue(req[r].quality.s)

C21_ValidationPrecedesWork ==
    \A r \in Reqs :
        /\ pc[r] \in {"idle", "hook", "file"} =>
              /\ engineCalls[r] = 0
              /\ uploadCalls[r] = 0
        /\ pc[r] \notin {"idle", "hook", "file"} /\ ~ValidUpload(r) =>
              /\ pc[r] = "done"
              /\ replies[r] = 1
              /\ response[r].status = 400
              /\ response[r].code = "VALIDATION_ERROR"
              /\ response[r].message = "Invalid file"
              /\ response[r].details[1] =
                    (IF ~req[r].hasFile THEN "No file provided"
                     ELSE "Invalid file type. Allowed types: ")
              /\ engineCalls[r] = 0
              /\ ~engineReq[r].sent
              /\ engine[r].state = "none"
              /\ uploadCalls[r] = 0
              /\ upload[r].state = "none"

C21_Witness ==
    \E r1, r2 \in Reqs :
        /\ ~req[r1].hasFile
        /\ response[r1].code = "VALIDATION_ERROR"
        /\ req[r2].hasFile /\ req[r2].mimetype = "text/plain"
        /\ response[r2].code = "VALIDATION_ERROR"
        /\ engineCalls[r2] = 0

\* the engine step of r failed: compressImage was called and threw, so that
\* the upload was never attempted
EngineStepFailed(r) ==
    /\ engineCalls[r] = 1
    /\ uploadCalls[r] = 0
    /\ Answered(r)
    /\ response[r].status = 500

\* the storage upload of r was attempted and failed
UploadStepFailed(r) ==
    /\ uploadCalls[r] = 1
    /\ upload[r].state = "failed"

\* C22 as stated: a 500 answer has code COMPRESSION_ERROR exactly when the
\* engine step failed (engine answer not ok, network failure, abort by the
\* timeout) and code UPLOAD_ERROR exactly when the upload was attempted and
\* failed
C22_ErrorCodeNamesStep ==
    \A r \in Reqs :
        Answered(r) /\ response[r].status = 500 =>
            /\ response[r].code = "COMPRESSION_ERROR" <=> EngineStepFailed(r)
            /\ response[r].code = "UPLOAD_ERROR" <=> UploadStepFailed(r)

\* C23: validateFileUpload accepts a file exactly when there is one, its
\* mimetype is allowed and its bytesRead is at most maxSize (maxSize itself
\* is accepted, maxSize + 1 is not), and the error it reports is that of the
\* first failing check in the order no-file, type, size
C23_ValidateFileUpload ==
    util.fn = "validateFileUpload" =>
        /\ util.result.isValid <=>
              /\ util.hasFile
              /\ util.mimetype \in allowedMimeTypes
              /\ util.bytesRead <= maxSize
        /\ util.result.isValid => util.result.error = NoText
        /\ ~util.result.isValid =>
              util.result.error[1] =
                  (IF ~util.hasFile THEN "No file provided"
                   ELSE IF util.mimetype \notin allowedMimeTypes
                   THEN "Invalid file type. Allowed types: "
                   ELSE "File too large. Maximum size allowed: ")

C23_Witness ==
    /\ util.fn = "validateFileUpload"
    /\ util.hasFile
    /\ util.mimetype = "image/webp"
    /\ util.bytesRead = maxSize
    /\ util.result.isValid

\* a text that denotes an integer: white space, a sign, then digits only
IntegerText(v) ==
    /\ v.t = "string"
    /\ LET t == TrimStart(v.s)
           u == IF t # << >> /\ Head(t) \in {"+", "-"} THEN Tail(t) ELSE t
       IN  /\ u # << >>
           /\ \A i \in 1..Len(u) : IsDigit(u[i])

\* C27 as stated: parseQuality returns the integer a quality denotes when
\* that is an integer between 1 and 100, and the default for every other
\* input, text that is only partly numeric included
C27_ParseQualityStrict ==
    util.fn = "parseQuality" =>
        IF IntegerText(util.quality) /\ JsParseInt(util.quality).n \in 1..100
        THEN util.result = JsParseInt(util.quality).n
        ELSE util.result = util.defaultQuality

\* the compressImage call of r has settled: it was made and is no longer
\* awaited by the handler
CallSettled(r) == engineCalls[r] > 0 /\ pc[r] \notin {"fetching", "reading"}

\* C24: a compressImage call that has settled, however it did (success,
\* answer not ok, network error, abort), has no armed timer left; a timer that
\* fired is the timer of a call that ended by that abort, once, and not of a
\* call that had settled otherwise; while the call is awaited its timer is
\* armed
C24_TimerReleased ==
    \A r \in Reqs :
        /\ CallSettled(r) => timer[r] \in {"cleared", "fired"}
        /\ engineCalls[r] = 0 => timer[r] = "unset"
        /\ pc[r] \in {"fetching", "reading"} => timer[r] = "armed"
        /\ timer[r] = "fired" =>
              /\ logged[r] = <<"This operation was aborted">>
              /\ replies[r] = 1
              /\ uploadCalls[r] = 0
        /\ timer[r] = "cleared" =>
              logged[r] # <<"This operation was aborted">>

C24_Witness ==
    \E r1, r2 \in Reqs :
        /\ upload[r1].state = "stored" /\ timer[r1] = "cleared"
        /\ logged[r2] = <<"fetch failed">> /\ timer[r2] = "cleared"

\* C25: the step in which the timeout of one call expires leaves every other
\* request as it was: its position, its timer, its answer, its log, its call
\* to the engine and its upload
C25_TimeoutsIsolated ==
    [][\A r \in Reqs :
          timer[r] = "armed" /\ timer'[r] = "fired" =>
              \A q \in Reqs \ {r} :
                  /\ pc'[q] = pc[q]
                  /\ timer'[q] = timer[q]
                  /\ response'[q] = response[q]
                  /\ replies'[q] = replies[q]
                  /\ logged'[q] = logged[q]
                  /\ engineReq'[q] = engineReq[q]
                  /\ engine'[q] = engine[q]
                  /\ upload'[q] = upload[q]]_vars

C25_Witness ==
    \E r1, r2 \in Reqs :
        /\ timer[r1] = "fired"
        /\ response[r1].status = 500
        /\ timer[r2] = "cleared"
        /\ response[r2].status = 200
        /\ response[r2].body.src = r2

====
